---- MODULE Spec2Model ----
(***************************************************************************)
(* Model of mk_aws_ssh_config.py: a straight-line script that reads a YAML *)
(* config, asks EC2 for its instances and prints an ssh client config.     *)
(*                                                                         *)
(* Python values are records [t |-> type name, s |-> str(value)]; a dict   *)
(* carries its items in a third field m.  A line of text is a pair         *)
(* <<keyword, rest of the line>>, a stanza a sequence of lines, and        *)
(* "".join(configs) is the concatenation of the stanzas' lines.            *)
(***************************************************************************)
EXTENDS Integers, Sequences, FiniteSets, TLC

VARIABLES pc, argv, cfgfilename, cfg, aws_profile, instance_prefix,
          bastion_host, bastion_user, instance_user, configs, ec2,
          reservations, instances, i, describe_calls, stdout, stderr,
          exit_status, uncaught

vars == <<pc, argv, cfgfilename, cfg, aws_profile, instance_prefix,
          bastion_host, bastion_user, instance_user, configs, ec2,
          reservations, instances, i, describe_calls, stdout, stderr,
          exit_status, uncaught>>

----------------------------------------------------------------------------
(* Bounds of the model. *)

\* instances in one describe_instances response, over all reservations
MaxInstances == 3
\* reservation groups in one describe_instances response
MaxReservations == 2

----------------------------------------------------------------------------
(* Python values. *)

None == [t |-> "NoneType", s |-> "None"]
Str(x) == [t |-> "str", s |-> x]
Int5 == [t |-> "int", s |-> "5"]
EmptyList == [t |-> "list", s |-> "[]"]
Dict(items) == [t |-> "dict", s |-> "{...}", m |-> items]

\* a variable the script has not bound yet
Unbound == [t |-> "unbound", s |-> ""]

\* what "{}".format(v) puts in the text: str(v)
Format(v) == v.s

\* the result of an expression: a value, or the exception it raised
Ok(v) == [exc |-> "", v |-> v]
Raise(e) == [exc |-> e, v |-> None]

\* a lookup that gives None for a missing key, as d.get(key) does
GetItem_Lenient(d, key) ==
    IF d.t # "dict" THEN Raise("TypeError")
    ELSE IF key \notin DOMAIN d.m THEN Ok(None)
    ELSE Ok(d.m[key])

\* d[key] on a value parsed from YAML
GetItem(d, key) ==
    IF d.t # "dict" THEN Raise("TypeError")
    ELSE IF key \notin DOMAIN d.m THEN Raise("KeyError")
    ELSE Ok(d.m[key])

\* r[key] where r is itself the result of a lookup
GetItem2(r, key) == IF r.exc # "" THEN r ELSE GetItem(r.v, key)

\* d.get(key, default)
DictGet(d, key, default) ==
    IF d.t # "dict" THEN Raise("AttributeError")
    ELSE IF key \notin DOMAIN d.m THEN Ok(default)
    ELSE Ok(d.m[key])

----------------------------------------------------------------------------
(* The inputs of a run. *)

Argvs == { <<"mk_aws_ssh_config.py">>,
           <<"mk_aws_ssh_config.py", "foocorp-mgmnt.yml">> }

\* a dict with the keys for which f gives a value
Absent == [t |-> "absent", s |-> ""]
MkDict(f) == Dict([k \in {k \in DOMAIN f : f[k] # Absent} |-> f[k]])

BastionValues ==
    { Absent, Int5 } \cup
    { MkDict([host |-> h, user |-> u]) :
        h \in { Absent, Str("12.34.56.78"), Str("") },
        u \in { Absent, Str("alice") } }

InstancesValues ==
    { Absent, EmptyList } \cup
    { MkDict([user |-> u]) : u \in { Absent, Str("bob"), None } }

\* what yaml.load can return for the config file
Cfgs ==
    { None, Str("foocorp"), EmptyList } \cup
    { MkDict([aws_profile |-> p, instance_prefix |-> x,
              bastion |-> b, instances |-> n]) :
        p \in { Absent, Str("foocorp") },
        x \in { Absent, Str("foocorp-") },
        b \in BastionValues,
        n \in InstancesValues }

Tag(k, v) == [Key |-> k, Value |-> Str(v)]

\* instance records of a describe_instances response; boto3 leaves out the
\* keys an instance has no value for
InstanceRecords ==
    { [PrivateIpAddress |-> Str("172.18.47.98")],
      [Tags |-> <<Tag("env", "prd")>>, PrivateIpAddress |-> Str("172.18.47.99")],
      [Tags |-> <<Tag("Name", "prd")>>, PrivateIpAddress |-> Str("172.18.47.98")],
      [Tags |-> <<Tag("env", "tst"), Tag("Name", "tst")>>,
       PrivateIpAddress |-> Str("172.18.85.48")],
      [Tags |-> <<Tag("Name", "")>>, PrivateIpAddress |-> Str("172.18.47.98")],
      [Tags |-> <<Tag("Name", "prd")>>],
      [Tags |-> <<>>] }

SeqsUpTo(S, n) == UNION { [1..k -> S] : k \in 0..n }

RECURSIVE Sum(_, _)
Sum(f, n) == IF n = 0 THEN 0 ELSE f[n] + Sum(f, n - 1)

\* flat cut into the groups whose lengths are lens
Split(flat, lens) ==
    [g \in 1..Len(lens) |->
        [Instances |-> SubSeq(flat, Sum(lens, g - 1) + 1, Sum(lens, g))]]

\* the "Reservations" lists describe_instances can return
IsResponse(flat, lens) == Sum(lens, Len(lens)) = Len(flat)

----------------------------------------------------------------------------
(* Text. *)

Line(keyword, rest) == <<keyword, rest>>
BlankLine == <<"", "">>

RECURSIVE Join(_)
\* "".join(stanzas)
Join(stanzas) ==
    IF stanzas = <<>> THEN <<>> ELSE Head(stanzas) \o Join(Tail(stanzas))

\* the template of lines 89-94
BastionStanza(profile, host, user) ==
    << Line("Host", Format(profile) \o "-bastion"),
       Line("    Hostname", Format(host)),
       Line("    User", Format(user)),
       BlankLine >>

\* the template of lines 111-122
InstanceStanza(prefix, name, ip, user, profile) ==
    << Line("Host:", Format(prefix) \o Format(name)),
       Line("    Hostname", Format(ip)),
       Line("    User", Format(user)),
       Line("    ProxyCommand", "ssh " \o Format(profile) \o "-bastion nc %h %p"),
       BlankLine >>

RECURSIVE get_tag_from_Empty(_, _)
\* a get_tag that ends with return "" instead of return None
get_tag_from_Empty(tags, tagkey) ==
    IF tags = <<>> THEN Str("")
    ELSE IF Head(tags).Key = tagkey THEN Head(tags).Value
    ELSE get_tag_from_Empty(Tail(tags), tagkey)

RECURSIVE get_tag_from(_, _)
\* the loop of get_tag over instance["Tags"]
get_tag_from(tags, tagkey) ==
    IF tags = <<>> THEN None
    ELSE IF Head(tags).Key = tagkey THEN Head(tags).Value
    ELSE get_tag_from(Tail(tags), tagkey)

\* get_tag(instance, tagkey): the value of the first tag with that key, None
\* when there is none, KeyError when the record has no "Tags"
get_tag(instance, tagkey) ==
    IF "Tags" \notin DOMAIN instance THEN Raise("KeyError")
    ELSE Ok(get_tag_from(instance["Tags"], tagkey))

\* "if not name" in place of "if name is None"
IsNone_Falsy(v) == v = None \/ v = Str("")

\* name is None
IsNone(v) == v = None

\* configs.insert(1, stanza) in place of configs.append(stanza)
ListAppend_Insert(list, x) == <<Head(list), x>> \o Tail(list)

\* configs.append(stanza)
ListAppend(list, x) == Append(list, x)

\* [-1] in place of [0]
FirstInstances_Last(response) == response[Len(response)]["Instances"]

\* response[0]["Instances"]
FirstInstances(response) == response[1]["Instances"]

----------------------------------------------------------------------------
(* The run. *)

Init ==
    /\ pc = "args"
    /\ argv \in Argvs
    /\ cfgfilename = ""
    /\ cfg = Unbound
    /\ aws_profile = Unbound
    /\ instance_prefix = Unbound
    /\ bastion_host = Unbound
    /\ bastion_user = Unbound
    /\ instance_user = Unbound
    /\ configs = <<>>
    /\ ec2 = FALSE
    /\ reservations = <<>>
    /\ instances = <<>>
    /\ i = 0
    /\ describe_calls = 0
    /\ stdout = <<>>
    /\ stderr = <<>>
    /\ exit_status = -1
    /\ uncaught = FALSE

\* sys.stderr.write(message); sys.exit(status)
Exit(message, status) ==
    /\ stderr' = Append(stderr, message)
    /\ exit_status' = status
    /\ pc' = "end"
    /\ UNCHANGED uncaught

\* an exception nothing catches: the interpreter prints the traceback and
\* the process ends with status 1
Fault ==
    /\ stderr' = Append(stderr, "Traceback")
    /\ exit_status' = 1
    /\ uncaught' = TRUE
    /\ pc' = "end"

Continue(next) ==
    /\ pc' = next
    /\ UNCHANGED <<stderr, exit_status, uncaught>>

\* lines 61-65
ParseArgs ==
    /\ pc = "args"
    /\ IF Len(argv) < 2
       THEN Exit("__doc__", 1) /\ UNCHANGED cfgfilename
       ELSE Continue("read") /\ cfgfilename' = argv[2]
    /\ UNCHANGED <<argv, cfg, aws_profile, instance_prefix, bastion_host,
                   bastion_user, instance_user, configs, ec2, reservations,
                   instances, i, describe_calls, stdout>>

\* lines 67-75
ReadConfig ==
    /\ pc = "read"
    /\ \/ Exit("Error reading file", 2) /\ UNCHANGED cfg
       \/ Exit("YAML error", 2) /\ UNCHANGED cfg
       \/ \E c \in Cfgs : cfg' = c /\ Continue("extract")
    /\ UNCHANGED <<argv, cfgfilename, aws_profile, instance_prefix,
                   bastion_host, bastion_user, instance_user, configs, ec2,
                   reservations, instances, i, describe_calls, stdout>>

\* lines 77-86
ExtractConfig ==
    /\ pc = "extract"
    /\ LET p  == GetItem(cfg, "aws_profile")
           x  == DictGet(cfg, "instance_prefix", Str(""))
           bh == GetItem2(GetItem(cfg, "bastion"), "host")
           bu == GetItem2(GetItem(cfg, "bastion"), "user")
           iu == GetItem2(GetItem(cfg, "instances"), "user")
           \* the assignments made before the first exception
           okp == p.exc = ""
           okx == okp /\ x.exc = ""
           okh == okx /\ bh.exc = ""
           oku == okh /\ bu.exc = ""
           oki == oku /\ iu.exc = ""
       IN  /\ aws_profile' = IF okp THEN p.v ELSE aws_profile
           /\ instance_prefix' = IF okx THEN x.v ELSE instance_prefix
           /\ bastion_host' = IF okh THEN bh.v ELSE bastion_host
           /\ bastion_user' = IF oku THEN bu.v ELSE bastion_user
           /\ instance_user' = IF oki THEN iu.v ELSE instance_user
           /\ IF oki THEN Continue("bastion")
                     ELSE Exit("Configuration error", 3)
    /\ UNCHANGED <<argv, cfgfilename, cfg, configs, ec2, reservations,
                   instances, i, describe_calls, stdout>>

\* a script that prints each stanza as soon as it is built
BuildBastion_Streaming ==
    /\ pc = "bastion"
    /\ configs' = << BastionStanza(aws_profile, bastion_host, bastion_user) >>
    /\ stdout' = Append(stdout, configs'[1])
    /\ Continue("client")
    /\ UNCHANGED <<argv, cfgfilename, cfg, aws_profile, instance_prefix,
                   bastion_host, bastion_user, instance_user, ec2,
                   reservations, instances, i, describe_calls>>

\* lines 89-95
BuildBastion ==
    /\ pc = "bastion"
    /\ configs' = << BastionStanza(aws_profile, bastion_host, bastion_user) >>
    /\ Continue("client")
    /\ UNCHANGED <<argv, cfgfilename, cfg, aws_profile, instance_prefix,
                   bastion_host, bastion_user, instance_user, ec2,
                   reservations, instances, i, describe_calls, stdout>>

\* a handler that reports the error and forgets sys.exit(4)
CreateClient_NoExit ==
    /\ pc = "client"
    /\ \/ ec2' = TRUE /\ Continue("describe")
       \/ /\ stderr' = Append(stderr, "AWS Error")
          /\ pc' = "describe"
          /\ UNCHANGED <<ec2, exit_status, uncaught>>
    /\ UNCHANGED <<argv, cfgfilename, cfg, aws_profile, instance_prefix,
                   bastion_host, bastion_user, instance_user, configs,
                   reservations, instances, i, describe_calls, stdout>>

\* lines 98-103
CreateClient ==
    /\ pc = "client"
    /\ \/ ec2' = TRUE /\ Continue("describe")
       \/ Exit("AWS Error", 4) /\ UNCHANGED ec2
    /\ UNCHANGED <<argv, cfgfilename, cfg, aws_profile, instance_prefix,
                   bastion_host, bastion_user, instance_user, configs,
                   reservations, instances, i, describe_calls, stdout>>

\* the describe call inside the try block of lines 98-103
Describe_Caught(raised, response) ==
    /\ describe_calls' = describe_calls + 1
    /\ IF raised
       THEN Exit("AWS Error", 4) /\ UNCHANGED <<reservations, instances, i>>
       ELSE /\ reservations' = response
            /\ IF Len(response) = 0
               THEN Exit("AWS Error", 4) /\ UNCHANGED <<instances, i>>
               ELSE /\ instances' = FirstInstances(response)
                    /\ i' = 1
                    /\ Continue("loop")

\* line 105, given what the call returns
Describe(raised, response) ==
    /\ describe_calls' = describe_calls + 1
    /\ IF raised
       THEN Fault /\ UNCHANGED <<reservations, instances, i>>
       ELSE /\ reservations' = response
            /\ IF Len(response) = 0
               THEN Fault /\ UNCHANGED <<instances, i>>
               ELSE /\ instances' = FirstInstances(response)
                    /\ i' = 1
                    /\ Continue("loop")

\* line 105
DescribeInstances ==
    /\ pc = "describe"
    /\ \/ Describe(TRUE, <<>>)
       \/ \E flat \in SeqsUpTo(InstanceRecords, MaxInstances),
             lens \in SeqsUpTo(0..MaxInstances, MaxReservations) :
            /\ IsResponse(flat, lens)
            /\ Describe(FALSE, Split(flat, lens))
    /\ UNCHANGED <<argv, cfgfilename, cfg, aws_profile, instance_prefix,
                   bastion_host, bastion_user, instance_user, configs, ec2,
                   stdout>>

\* lines 106-122: one iteration of the loop
RenderInstance ==
    /\ pc = "loop"
    /\ i <= Len(instances)
    /\ LET instance == instances[i]
           name == get_tag(instance, "Name")
       IN  IF name.exc # ""
           THEN Fault /\ UNCHANGED <<configs, i>>
           ELSE IF IsNone(name.v)
           THEN i' = i + 1 /\ Continue("loop") /\ UNCHANGED configs
           ELSE IF "PrivateIpAddress" \notin DOMAIN instance
           THEN Fault /\ UNCHANGED <<configs, i>>
           ELSE /\ configs' = ListAppend(configs,
                        InstanceStanza(instance_prefix, name.v,
                                       instance["PrivateIpAddress"],
                                       instance_user, aws_profile))
                /\ i' = i + 1
                /\ Continue("loop")
    /\ UNCHANGED <<argv, cfgfilename, cfg, aws_profile, instance_prefix,
                   bastion_host, bastion_user, instance_user, ec2,
                   reservations, instances, describe_calls, stdout>>

\* line 124, and the end of the script
WriteOutput ==
    /\ pc = "loop"
    /\ i > Len(instances)
    /\ stdout' = Append(stdout, Join(configs))
    /\ exit_status' = 0
    /\ pc' = "end"
    /\ UNCHANGED <<argv, cfgfilename, cfg, aws_profile, instance_prefix,
                   bastion_host, bastion_user, instance_user, configs, ec2,
                   reservations, instances, i, describe_calls, stderr,
                   uncaught>>

Next ==
    \/ ParseArgs
    \/ ReadConfig
    \/ ExtractConfig
    \/ BuildBastion
    \/ CreateClient
    \/ DescribeInstances
    \/ RenderInstance
    \/ WriteOutput

Spec == Init /\ [][Next]_vars

----------------------------------------------------------------------------
(* Vocabulary of the properties. *)

Finished == pc = "end"
Succeeded == pc = "end" /\ exit_status = 0 /\ ~uncaught

\* the run ended in one of the script's own sys.exit(1..4) calls
Categorised == pc = "end" /\ exit_status \in 1..4 /\ ~uncaught

HasNameTag(instance) ==
    /\ "Tags" \in DOMAIN instance
    /\ \E k \in 1..Len(instance["Tags"]) : instance["Tags"][k].Key = "Name"

\* the value of the first tag whose key is "Name"
NameOf(instance) ==
    LET tags == instance["Tags"]
        k == CHOOSE j \in 1..Len(tags) :
                /\ tags[j].Key = "Name"
                /\ \A h \in 1..(j - 1) : tags[h].Key # "Name"
    IN  tags[k].Value

HasNonEmptyName(instance) ==
    HasNameTag(instance) /\ NameOf(instance) # Str("")

IsHostLine(line) == line[1] \in {"Host", "Host:"}
IsInstanceHostLine(line) == line[1] = "Host:"

\* the stanzas of a text: one per line that opens a Host block
StanzaCount(text) == Len(SelectSeq(text, IsHostLine))

NonEmptyString(v) == v.t = "str" /\ v.s # ""

\* every key the extraction looks up is there, in a mapping
WellShaped(c) ==
    /\ c.t = "dict"
    /\ {"aws_profile", "bastion", "instances"} \subseteq DOMAIN c.m
    /\ c.m["bastion"].t = "dict"
    /\ {"host", "user"} \subseteq DOMAIN c.m["bastion"].m
    /\ c.m["instances"].t = "dict"
    /\ "user" \in DOMAIN c.m["instances"].m

TypeOK ==
    /\ pc \in {"args", "read", "extract", "bastion", "client", "describe",
               "loop", "end"}
    /\ exit_status \in -1..4
    /\ (pc = "end") <=> (exit_status # -1)

----------------------------------------------------------------------------
(* Properties. *)

NamedIndices == { k \in 1..Len(instances) : HasNameTag(instances[k]) }
NonEmptyNamedIndices == { k \in 1..Len(instances) : HasNonEmptyName(instances[k]) }
UnnamedIndices == { k \in 1..Len(instances) : ~HasNameTag(instances[k]) }

\* C1: standard output is written at most once, and only by a run in which
\* every stage succeeded and every instance was processed; a run that ends
\* with status 1, 2, 3 or 4 or in an uncaught exception has written nothing,
\* whatever stanzas it had built by then.
C1_OutputOnlyOnFullSuccess ==
    /\ Len(stdout) <= 1
    /\ stdout # <<>> =>
          /\ Succeeded
          /\ Len(argv) >= 2 /\ WellShaped(cfg) /\ configs # <<>>
          /\ ec2 /\ describe_calls = 1 /\ Len(reservations) >= 1
          /\ i = Len(instances) + 1
          /\ stderr = <<>>
    /\ (Finished /\ (exit_status \in 1..4 \/ uncaught)) => stdout = <<>>

\* a run that built the bastion stanza and an instance stanza, then failed
C1_Witness ==
    /\ Finished /\ uncaught
    /\ Len(configs) >= 2
    /\ stdout = <<>>

Rank(p) ==
    CASE p = "args" -> 1 [] p = "read" -> 2 [] p = "extract" -> 3
      [] p = "bastion" -> 4 [] p = "client" -> 5 [] p = "describe" -> 6
      [] p = "loop" -> 7 [] p = "end" -> 8

\* the stage whose failure the run's error message reports
StatusOfMessage(m) ==
    CASE m = "__doc__" -> 1
      [] m \in {"Error reading file", "YAML error"} -> 2
      [] m = "Configuration error" -> 3
      [] m = "AWS Error" -> 4
      [] m = "Traceback" -> 1

\* what has run by the time the run is at p
StagesDone(p) ==
    /\ (Rank(p) > 2) <=> (cfg # Unbound)
    /\ (Rank(p) > 4) <=> (configs # <<>>)
    /\ (Rank(p) > 5) <=> ec2
    /\ (Rank(p) > 6) <=> (describe_calls = 1)
    /\ describe_calls \in {0, 1}

\* the stages go forward only, each at most once (the render loop goes
\* through the instances once)
C2_StageStep ==
    \/ Rank(pc') > Rank(pc)
    \/ pc = "loop" /\ pc' = "loop" /\ i' = i + 1

C2_StatusOfFirstFailure ==
    /\ stderr # <<>> => Finished /\ Len(stderr) = 1
                          /\ exit_status = StatusOfMessage(stderr[1])
    /\ Finished /\ stderr = <<>> => exit_status = 0
    /\ ~Finished => StagesDone(pc)
    /\ describe_calls <= 1

\* C2 as claimed: the stages run in order, at most once each, the exit
\* status is that of the first failing stage, and describe_instances is
\* called at most once and never in a run that exits with 1, 2, 3 or 4.
C2_AsClaimed ==
    /\ C2_StatusOfFirstFailure
    /\ (Finished /\ exit_status \in 1..4) => describe_calls = 0

\* C2, amended: the stages run in order, at most once each; the exit status
\* is that of the first failing stage; describe_instances is called at most
\* once and never in a run that ends in one of the script's own exits 1-4.
\* A run whose describe call or rendering raises has made the call and ends
\* in an uncaught exception, which the interpreter reports as status 1.
C2_StagesInOrder ==
    /\ [](/\ C2_StatusOfFirstFailure
          /\ Categorised => describe_calls = 0
          /\ uncaught => exit_status = 1 /\ describe_calls = 1)
    /\ [][C2_StageStep]_vars

\* a run that failed at client construction, after three stages succeeded
C2_Witness ==
    /\ Finished /\ exit_status = 4 /\ ~uncaught
    /\ cfg # Unbound /\ configs # <<>> /\ ~ec2
    /\ describe_calls = 0

\* C3: past extraction, a config that lacks a required key or has a
\* non-mapping where a mapping is looked into has ended the run with status
\* 3, no describe call and no output; any other config has not failed the
\* stage, and instance_prefix is "" when the key is missing.
C3_ExtractionAllOrNothing ==
    (cfg # Unbound /\ pc # "extract") =>
        IF WellShaped(cfg)
        THEN /\ ~(Finished /\ exit_status = 3)
             /\ aws_profile = cfg.m["aws_profile"]
             /\ bastion_host = cfg.m["bastion"].m["host"]
             /\ bastion_user = cfg.m["bastion"].m["user"]
             /\ instance_user = cfg.m["instances"].m["user"]
             /\ "instance_prefix" \notin DOMAIN cfg.m => instance_prefix = Str("")
             /\ "instance_prefix" \in DOMAIN cfg.m =>
                    instance_prefix = cfg.m["instance_prefix"]
        ELSE /\ Finished /\ exit_status = 3 /\ ~uncaught
             /\ stderr = <<"Configuration error">>
             /\ describe_calls = 0 /\ ~ec2 /\ configs = <<>>
             /\ stdout = <<>>

\* a config that lacks only bastion.user, rejected
C3_Witness ==
    /\ Finished /\ exit_status = 3
    /\ cfg.t = "dict"
    /\ DOMAIN cfg.m = {"aws_profile", "instance_prefix", "bastion", "instances"}
    /\ cfg.m["bastion"].t = "dict" /\ DOMAIN cfg.m["bastion"].m = {"host"}
    /\ cfg.m["instances"].t = "dict" /\ "user" \in DOMAIN cfg.m["instances"].m
    /\ stdout = <<>>

\* C4 as claimed: past extraction, aws_profile, bastion_host, bastion_user
\* and instance_user are non-empty strings.
C4_AsClaimed ==
    Rank(pc) \in 4..7 =>
        /\ NonEmptyString(aws_profile)
        /\ NonEmptyString(bastion_host)
        /\ NonEmptyString(bastion_user)
        /\ NonEmptyString(instance_user)

\* C5: when every instance handed to the renderer has a non-empty Name tag
\* or no Name tag, the output of a successful run has exactly 1 + N stanzas,
\* N the number of instances with a non-empty Name tag.
C5_StanzaCount ==
    (Succeeded /\ NamedIndices = NonEmptyNamedIndices) =>
        /\ Len(stdout) = 1
        /\ StanzaCount(stdout[1]) = 1 + Cardinality(NonEmptyNamedIndices)

\* two named instances and one without a Name tag
C5_Witness ==
    /\ Succeeded
    /\ NamedIndices = NonEmptyNamedIndices
    /\ Cardinality(NonEmptyNamedIndices) = 2
    /\ Cardinality(UnnamedIndices) = 1
    /\ StanzaCount(stdout[1]) = 3

\* the Host aliases of the instance stanzas of a text, in order
InstanceAliases(text) ==
    LET ls == SelectSeq(text, IsInstanceHostLine)
    IN  [k \in 1..Len(ls) |-> ls[k][2]]

\* the aliases the instances with a Name tag get, in the order of the list
ExpectedAliases(insts) ==
    LET named == SelectSeq(insts, HasNameTag)
    IN  [k \in 1..Len(named) |->
            Format(instance_prefix) \o Format(NameOf(named[k]))]

\* C6: the output of a successful run starts with the bastion stanza, which
\* occurs once, and the instance stanzas follow in the order in which their
\* instances were returned.
C6_BastionFirstThenInOrder ==
    Succeeded =>
        LET text == stdout[1]
        IN  /\ SubSeq(text, 1, 4) =
                    BastionStanza(aws_profile, bastion_host, bastion_user)
            /\ Len(SelectSeq(text, LAMBDA l : l[1] = "Host")) = 1
            /\ InstanceAliases(text) = ExpectedAliases(instances)

\* tst was returned before prd, and is printed before it
C6_Witness ==
    /\ Succeeded
    /\ Len(instances) >= 2
    /\ HasNameTag(instances[1]) /\ NameOf(instances[1]) = Str("tst")
    /\ HasNameTag(instances[2]) /\ NameOf(instances[2]) = Str("prd")
    /\ SubSeq(InstanceAliases(stdout[1]), 1, 2) =
            << Format(instance_prefix) \o "tst", Format(instance_prefix) \o "prd" >>

RECURSIVE RenderAll(_)
\* the stanzas of the instances of insts that have a Name tag
RenderAll(insts) ==
    IF insts = <<>> THEN <<>>
    ELSE (IF HasNameTag(Head(insts))
          THEN InstanceStanza(instance_prefix, NameOf(Head(insts)),
                              Head(insts)["PrivateIpAddress"],
                              instance_user, aws_profile)
          ELSE <<>>) \o RenderAll(Tail(insts))

C8_AsClaimed ==
    (Finished /\ uncaught /\ i \in 1..Len(instances)) =>
        HasNameTag(instances[i])

\* C9 as claimed: the instance stanzas of a successful run are as many as
\* the instances with a non-empty Name tag.
C9_AsClaimed ==
    Succeeded =>
        StanzaCount(stdout[1]) - 1 = Cardinality(NonEmptyNamedIndices)

\* C9, amended: an instance gets a stanza if and only if it has a tag whose
\* key is "Name", whatever the value: an instance whose Name tag is the
\* empty string gets a stanza whose alias is the prefix alone.
C9_StanzaIffNameTag ==
    Succeeded =>
        /\ Len(SelectSeq(stdout[1], IsInstanceHostLine)) = Cardinality(NamedIndices)
        /\ \A k \in NamedIndices \ NonEmptyNamedIndices :
                \E n \in 1..Len(stdout[1]) :
                    stdout[1][n] = Line("Host:", Format(instance_prefix))

\* an instance with an empty Name tag, rendered
C9_Witness ==
    /\ Succeeded
    /\ NamedIndices # NonEmptyNamedIndices
    /\ \E n \in 1..Len(stdout[1]) :
            stdout[1][n] = Line("Host:", Format(instance_prefix))

\* nothing went wrong in the describe call or in the response
ResponseRenders ==
    /\ Len(reservations) >= 1
    /\ instances = reservations[1]["Instances"]
    /\ \A k \in 1..Len(instances) :
            /\ "Tags" \in DOMAIN instances[k]
            /\ HasNameTag(instances[k]) =>
                    "PrivateIpAddress" \in DOMAIN instances[k]

\* C10: a run that built its client ends either in success, and then
\* nothing failed, or in an uncaught exception: no handler of the script
\* ran, the only text on the error stream is the traceback, and nothing is
\* on standard output.
C10_LateFailuresUncaught ==
    (Finished /\ ec2) =>
        \/ Succeeded /\ ResponseRenders
        \/ /\ uncaught
           /\ stderr = <<"Traceback">>
           /\ stdout = <<>>
           /\ ~ResponseRenders \/ i = 0

\* a named instance without a private address
C10_Witness ==
    /\ Finished /\ ec2 /\ uncaught
    /\ i \in 1..Len(instances)
    /\ HasNameTag(instances[i])
    /\ "PrivateIpAddress" \notin DOMAIN instances[i]
    /\ stdout = <<>>

====
